---- MODULE Spec2Model ----
(***************************************************************************)
(* Model of Serve (src/main.rs): a single-threaded static file server that *)
(* busy-polls a non-blocking listener and a bounded vector of non-blocking *)
(* streams, with one read buffer and one trash buffer shared by them all.  *)
(*                                                                         *)
(* Bytes are one-character strings; "xFF" stands for the byte 0xFF, which  *)
(* never occurs in valid UTF-8.  Rust offsets are 0-based: At(buf, i) is   *)
(* buf[i] of the source.                                                   *)
(***************************************************************************)
EXTENDS Integers, Sequences, FiniteSets, TLC

(***************************************************************************)
(* Sizes.  The source has MAX_CONNECTIONS = 16 and READ_BUFFER_SIZE = 256; *)
(* the model keeps the code parametric in both and checks it with small    *)
(* values.                                                                 *)
(***************************************************************************)
MAX_CONNECTIONS == 2

READ_BUFFER_SIZE == 12

START_OF_PATH == 4

\* Peers that ever connect (one more than the live set can hold).
NumPeers == 3

\* Peers that send requests and close (the first ones to connect); the
\* others connect and stay silent.
NumSenders == 2

Peers == 1..NumPeers

Senders == 1..NumSenders

Min(a, b) == IF a < b THEN a ELSE b

At(buf, i) == buf[i + 1]

\* b"GET /"
GET_SLASH == <<"G", "E", "T", " ", "/">>

\* [b'0'; READ_BUFFER_SIZE]
InitBuffer == [i \in 1..READ_BUFFER_SIZE |-> "0"]

\* public_dir: "public" when that directory exists
PUBLIC_DIR == <<"p", "u", "b", "l", "i", "c">>

INDEX_HTML == <<"i", "n", "d", "e", "x", ".", "h", "t", "m", "l">>

(***************************************************************************)
(* The file system under the working directory, keyed by the list of path  *)
(* components: directories, and files with their content and whether the   *)
(* process may read them.                                                  *)
(***************************************************************************)
n_a_js == <<"a", ".", "j", "s">>

n_n_txt == <<"n", ".", "t", "x", "t">>

n_u_css == <<"u", ".", "c", "s", "s">>

n_d == <<"d">>

n_e == <<"e">>

n_f == <<"f">>

FsDirs ==
    { <<PUBLIC_DIR>>, <<PUBLIC_DIR, n_d>>, <<PUBLIC_DIR, n_e>>, <<PUBLIC_DIR, n_f>> }

FsFiles ==
    { [at |-> <<PUBLIC_DIR, n_a_js>>, content |-> <<"h", "i">>, readable |-> TRUE],
      [at |-> <<PUBLIC_DIR, n_n_txt>>, content |-> <<"t">>, readable |-> TRUE],
      [at |-> <<PUBLIC_DIR, n_u_css>>, content |-> <<"c", "c">>, readable |-> FALSE],
      [at |-> <<PUBLIC_DIR, n_d, INDEX_HTML>>, content |-> <<"o", "k", "!">>, readable |-> TRUE],
      [at |-> <<PUBLIC_DIR, n_f, INDEX_HTML>>, content |-> <<"s">>, readable |-> FALSE] }

(***************************************************************************)
(* Paths.  A path is a sequence of bytes.  The kernel and std::path both   *)
(* skip empty components and "." components; a path that ends in a         *)
(* separator or in "." names its last component as a directory.            *)
(***************************************************************************)
RECURSIVE SplitFrom(_, _, _, _)
SplitFrom(p, i, cur, acc) ==
    IF i > Len(p) THEN Append(acc, cur)
    ELSE IF p[i] = "/" THEN SplitFrom(p, i + 1, <<>>, Append(acc, cur))
    ELSE SplitFrom(p, i + 1, Append(cur, p[i]), acc)

RawComponents(p) == SplitFrom(p, 1, <<>>, <<>>)

Components(p) ==
    SelectSeq(RawComponents(p), LAMBDA c : c # <<>> /\ c # <<".">>)

NeedsDir(p) ==
    LET raw == RawComponents(p)
    IN  Len(raw) > 1 /\ raw[Len(raw)] \in { <<>>, <<".">> }

ends_with_slash(p) == Len(p) > 0 /\ p[Len(p)] = "/"

\* Path::is_dir
is_dir(p) == Components(p) \in FsDirs

\* join_index with the push of index.html left out.
join_index_left_out(p) == p

\* PathBuf::join("index.html")
join_index(p) ==
    IF ends_with_slash(p) THEN p \o INDEX_HTML ELSE p \o <<"/">> \o INDEX_HTML

\* std::fs::read: the content, or an error
fs_read(p) ==
    LET hit == { f \in FsFiles : f.at = Components(p) }
    IN  IF hit = {} \/ NeedsDir(p) THEN [ok |-> FALSE, content |-> <<>>]
        ELSE LET f == CHOOSE f \in hit : TRUE
             IN  IF f.readable THEN [ok |-> TRUE, content |-> f.content]
                 ELSE [ok |-> FALSE, content |-> <<>>]

RECURSIVE LastDot(_, _)
LastDot(name, i) ==
    IF i = 0 THEN 0 ELSE IF name[i] = "." THEN i ELSE LastDot(name, i - 1)

\* Path::extension: None, or Some(the bytes after the last dot of the file
\* name), the file name being the last component; a name whose only dot is
\* its first byte has no extension.
extension(p) ==
    LET comps == Components(p)
        name == comps[Len(comps)]
        dot == LastDot(name, Len(name))
    IN  IF dot <= 1 THEN [some |-> FALSE, ext |-> <<>>]
        ELSE [some |-> TRUE, ext |-> SubSeq(name, dot + 1, Len(name))]


(***************************************************************************)
(* The three response shapes.  Each is the sequence of write_all calls the *)
(* function makes: a head (status line and headers) and, for content, the  *)
(* body.                                                                   *)
(***************************************************************************)
send_response_simple(code) ==
    << [head |-> code,
        reason |-> IF code = 400 THEN "Bad Request"
                   ELSE IF code = 404 THEN "Not Found" ELSE ""] >>

\* send_response_redirect answering 301 Moved Permanently.
send_response_redirect_301(location) ==
    << [head |-> 301, reason |-> "Moved Permanently", location |-> location] >>

send_response_redirect(location) ==
    << [head |-> 308, reason |-> "Permanent Redirect", location |-> location] >>

\* send_response_content counting one byte too many.
send_response_content_off_by_one(content_type, content) ==
    << [head |-> 200, reason |-> "OK", content_length |-> Len(content) + 1,
        content_type |-> content_type],
       [body |-> content] >>

send_response_content(content_type, content) ==
    << [head |-> 200, reason |-> "OK", content_length |-> Len(content),
        content_type |-> content_type],
       [body |-> content] >>

\* What the write_all calls of one response may return: Ok or an error.  A
\* response makes at most two calls.
WriteResults == [1..2 -> BOOLEAN]

\* The write_all calls of a response in turn, oks their results: what the
\* socket took.  The call that fails ends the response (`if ... .is_ok()`).
RECURSIVE write_each(_, _)
write_each(response, oks) ==
    IF response = <<>> \/ ~Head(oks) THEN <<>>
    ELSE <<Head(response)>> \o write_each(Tail(response), Tail(oks))

(***************************************************************************)
(* The request parser of read_and_write.                                   *)
(***************************************************************************)
starts_with(buf, prefix) ==
    Len(buf) >= Len(prefix) /\ SubSeq(buf, 1, Len(prefix)) = prefix

is_terminator(b) == b \in {" ", "?", "#"}

\* scan_path with last_byte_was_dot never set.
RECURSIVE scan_path_dot_not_remembered(_, _, _)
scan_path_dot_not_remembered(buf, i, last_byte_was_dot) ==
    IF i >= READ_BUFFER_SIZE
    THEN [bad |-> FALSE, end_of_path |-> READ_BUFFER_SIZE - 1]
    ELSE IF At(buf, i) = "."
    THEN IF last_byte_was_dot
         THEN [bad |-> TRUE, end_of_path |-> i]
         ELSE scan_path_dot_not_remembered(buf, i + 1, FALSE)
    ELSE IF is_terminator(At(buf, i))
    THEN [bad |-> FALSE, end_of_path |-> i]
    ELSE scan_path_dot_not_remembered(buf, i + 1, FALSE)

\* The scan of read_buffer[START_OF_PATH+1..READ_BUFFER_SIZE]: a second dot
\* in a row is a bad request, a terminator ends the path, and without one
\* end_of_path stays READ_BUFFER_SIZE - 1.
RECURSIVE scan_path(_, _, _)
scan_path(buf, i, last_byte_was_dot) ==
    IF i >= READ_BUFFER_SIZE
    THEN [bad |-> FALSE, end_of_path |-> READ_BUFFER_SIZE - 1]
    ELSE IF At(buf, i) = "."
    THEN IF last_byte_was_dot
         THEN [bad |-> TRUE, end_of_path |-> i]
         ELSE scan_path(buf, i + 1, TRUE)
    ELSE IF is_terminator(At(buf, i))
    THEN [bad |-> FALSE, end_of_path |-> i]
    ELSE scan_path(buf, i + 1, FALSE)

\* &read_buffer[START_OF_PATH..end_of_path]
slice(buf, from, to) == SubSeq(buf, from + 1, to)

\* std::str::from_utf8 on the model's bytes: ASCII, or the byte 0xFF
from_utf8_ok(bytes) == \A i \in 1..Len(bytes) : bytes[i] # "xFF"

\* content_type_of with a default type for the extensions it does not know.
content_type_of_with_default(e) ==
    IF ~e.some THEN ""
    ELSE IF e.ext = <<"h", "t", "m", "l">> THEN "text/html"
    ELSE IF e.ext = <<"c", "s", "s">> THEN "text/css"
    ELSE IF e.ext = <<"j", "s">> THEN "application/javascript"
    ELSE IF e.ext = <<"s", "v", "g">> THEN "image/svg+xml"
    ELSE IF e.ext = <<"w", "o", "f", "f", "2">> THEN "font/woff2"
    ELSE "application/octet-stream"

\* The extension allow-list; "" when the extension is not in it.
content_type_of(e) ==
    IF ~e.some THEN ""
    ELSE IF e.ext = <<"h", "t", "m", "l">> THEN "text/html"
    ELSE IF e.ext = <<"c", "s", "s">> THEN "text/css"
    ELSE IF e.ext = <<"j", "s">> THEN "application/javascript"
    ELSE IF e.ext = <<"s", "v", "g">> THEN "image/svg+xml"
    ELSE IF e.ext = <<"w", "o", "f", "f", "2">> THEN "font/woff2"
    ELSE ""

\* read_and_write returning false after a response.
stream_dropped_after_response == FALSE

\* The value read_and_write returns after it has sent a response.
stream_exists_after_response == TRUE

(***************************************************************************)
(* What read_and_write does once the drain has ended with a read error:    *)
(* the response it sends (sent: the write_all calls of the response), the  *)
(* paths it tests with is_dir (probes) and reads with fs::read (reads),    *)
(* the path it parsed when it got that far, and its return value.          *)
(***************************************************************************)
Outcome(sent, probes, reads, parsed, partial_path) ==
    [sent |-> sent, probes |-> probes, reads |-> reads, parsed |-> parsed,
     partial_path |-> partial_path, keep |-> stream_exists_after_response]

resolve_and_send(partial_path) ==
    LET path == PUBLIC_DIR \o partial_path
        dir == is_dir(path)
    IN  IF dir /\ ~ends_with_slash(partial_path)
        THEN Outcome(send_response_redirect(partial_path \o <<"/">>),
                     <<path>>, <<>>, TRUE, partial_path)
        ELSE LET final == IF dir THEN join_index(path) ELSE path
                 content_type == content_type_of(extension(final))
                 content == fs_read(final)
             IN  IF content_type = ""
                 THEN Outcome(send_response_simple(404),
                              <<path>>, <<>>, TRUE, partial_path)
                 ELSE IF ~content.ok
                 THEN Outcome(send_response_simple(404),
                              <<path>>, <<final>>, TRUE, partial_path)
                 ELSE Outcome(send_response_content(content_type, content.content),
                              <<path>>, <<final>>, TRUE, partial_path)

\* parse_and_respond going on to resolve a path that has two dots in a row.
parse_and_respond_dots_let_through(buf) ==
    IF ~starts_with(buf, GET_SLASH)
    THEN Outcome(send_response_simple(400), <<>>, <<>>, FALSE, <<>>)
    ELSE LET s == scan_path_dot_not_remembered(buf, START_OF_PATH + 1, FALSE)
             partial_path == slice(buf, START_OF_PATH, s.end_of_path)
         IN  IF ~from_utf8_ok(partial_path)
             THEN Outcome(send_response_simple(400), <<>>, <<>>, FALSE, <<>>)
             ELSE resolve_and_send(partial_path)

\* parse_and_respond without the return after the 400 of a request that is
\* not a GET.
parse_and_respond_no_return(buf) ==
    LET s == scan_path(buf, START_OF_PATH + 1, FALSE)
        partial_path == slice(buf, START_OF_PATH, s.end_of_path)
        rest == IF s.bad \/ ~from_utf8_ok(partial_path)
                THEN Outcome(send_response_simple(400), <<>>, <<>>, FALSE, <<>>)
                ELSE resolve_and_send(partial_path)
    IN  IF ~starts_with(buf, GET_SLASH)
        THEN [rest EXCEPT !.sent = send_response_simple(400) \o @]
        ELSE rest

parse_and_respond(buf) ==
    IF ~starts_with(buf, GET_SLASH)
    THEN Outcome(send_response_simple(400), <<>>, <<>>, FALSE, <<>>)
    ELSE LET s == scan_path(buf, START_OF_PATH + 1, FALSE)
             partial_path == slice(buf, START_OF_PATH, s.end_of_path)
         IN  IF s.bad \/ ~from_utf8_ok(partial_path)
             THEN Outcome(send_response_simple(400), <<>>, <<>>, FALSE, <<>>)
             ELSE resolve_and_send(partial_path)


(***************************************************************************)
(* The requests the peers send.                                            *)
(***************************************************************************)
\* GET /a.js : a readable file with a supported extension
R_a_js == GET_SLASH \o n_a_js \o <<" ">>

\* GET /d : a directory, no trailing slash
R_d == GET_SLASH \o n_d \o <<" ">>

\* GET /d/ : a directory with a readable index.html
R_d_slash == GET_SLASH \o n_d \o <<"/", " ">>

\* GET /e/ : a directory without index.html
R_e_slash == GET_SLASH \o n_e \o <<"/", " ">>

\* GET /f/ : a directory whose index.html cannot be read
R_f_slash == GET_SLASH \o n_f \o <<"/", " ">>

\* GET /n.txt : a readable file with an extension outside the list
R_n_txt == GET_SLASH \o n_n_txt \o <<" ">>

\* GET /u.css : a file that cannot be read
R_u_css == GET_SLASH \o n_u_css \o <<" ">>

\* GET /../s : two dots at the start of the path
R_dotdot == GET_SLASH \o <<".", ".", "/", "s", " ">>

\* PUT /a.js : not a GET
R_put == <<"P", "U", "T", " ", "/">> \o n_a_js \o <<" ">>

\* GET : three bytes and nothing more
R_short == <<"G", "E", "T">>

\* GET / : five bytes and nothing more
R_bare == GET_SLASH

\* GET /<0xFF> : a path that is not UTF-8
R_bad_utf8 == GET_SLASH \o <<"xFF", " ">>

\* GET /aaaaaaaa/../a.js : longer than the read buffer, the two dots beyond it
R_long ==
    GET_SLASH \o <<"a", "a", "a", "a", "a", "a", "a", "a", "/", ".", ".", "/">>
        \o n_a_js \o <<" ">>

Requests ==
    { R_a_js, R_d, R_d_slash, R_e_slash, R_f_slash, R_n_txt, R_u_css, R_dotdot,
      R_put, R_short, R_bare, R_bad_utf8, R_long }

\* The short requests, which leave most of the read buffer as it was.
Followups == { R_bare, R_short }

\* The requests of a run, each with the peer that sends it, in the order
\* they are started: one request by the first peer; or any request by the
\* first peer and then a short one by any sender; or a short one by the first
\* peer and then the request with the two dots by any sender.
Runs ==
    { << <<1, r>> >> : r \in Requests }
        \cup { << <<1, r>>, <<c, f>> >> : r \in Requests, c \in Senders, f \in Followups }
        \cup { << <<1, f>>, <<c, R_dotdot>> >> : f \in Followups, c \in Senders }

\* Where a peer may cut a request into two TCP segments.
SplitPoints == {7}

Cuts(r) == {Len(r)} \cup {k \in SplitPoints : k < Len(r)}

(***************************************************************************)
(* State.                                                                  *)
(*   RUNNING, streams, read_buffer, trash_buffer : the program's data      *)
(*   pc, idx : where main is ("accept": at listener.incoming(); "lead",    *)
(*     "check", "drain": in read_and_write for streams[idx] at the leading *)
(*     read, the RUNNING test of the drain loop, the drain read; "done":   *)
(*     returned)                                                           *)
(*   backlog, conn, rx, fin, tosend : the sockets and their peers          *)
(*   flood : the peers that have begun to send without end                 *)
(*   stalled : the peers that have stopped taking what the server writes   *)
(*   started : the requests the peers have started, each with its peer, in *)
(*     order                                                               *)
(*   cyc, hist : the bytes taken by the cycle in progress, and the record  *)
(*     of every finished cycle                                             *)
(***************************************************************************)
VARIABLES RUNNING, streams, read_buffer, trash_buffer, pc, idx,
          backlog, conn, rx, fin, flood, stalled, tosend, started, cyc, hist

vars == <<RUNNING, streams, read_buffer, trash_buffer, pc, idx,
          backlog, conn, rx, fin, flood, stalled, tosend, started, cyc, hist>>

server_vars == <<streams, read_buffer, trash_buffer, pc, idx, cyc, hist>>

NoCycle == [lead |-> <<>>, drained |-> <<>>]

Init ==
    /\ RUNNING = TRUE
    /\ streams = <<>>
    /\ read_buffer = InitBuffer
    /\ trash_buffer = InitBuffer
    /\ pc = "accept"
    /\ idx = 1
    /\ backlog = <<>>
    /\ conn = [c \in Peers |-> "new"]
    /\ rx = [c \in Peers |-> <<>>]
    /\ fin = [c \in Peers |-> FALSE]
    /\ flood = {}
    /\ stalled = {}
    /\ tosend = [c \in Peers |-> <<>>]
    /\ started = <<>>
    /\ cyc = NoCycle
    /\ hist = <<>>

(***************************************************************************)
(* The peers and the interrupt.                                            *)
(***************************************************************************)
\* The byte a flooding peer repeats.
FILLER == "z"

\* The peer may still start a request or close.
Open(c) ==
    conn[c] \in {"backlog", "live"} /\ ~fin[c] /\ c \notin flood \cup stalled

\* The peers and the interrupt act between the server's steps.  A step of a
\* peer commutes with the server's steps that do not read that peer's
\* socket, and the interrupt with the leading read, which neither reads
\* RUNNING nor ends a cycle: so it is enough to let the peers act when main
\* is at the listener or about to make a drain read, and the interrupt
\* everywhere but before a leading read.
PeerTurn == pc \in {"accept", "drain"}

SignalTurn == pc \in {"accept", "check", "drain"}

\* A peer connects: its socket waits in the listener's backlog.
Connect(c) ==
    /\ PeerTurn
    /\ conn[c] = "new"
    /\ \A b \in Peers : b < c => conn[b] # "new"
    /\ conn' = [conn EXCEPT ![c] = "backlog"]
    /\ backlog' = Append(backlog, c)
    /\ UNCHANGED <<RUNNING, rx, fin, stalled, flood, tosend, started, server_vars>>

\* A peer starts request r; its first k bytes arrive.
Send(c, r, k) ==
    /\ PeerTurn
    /\ Open(c)
    /\ tosend[c] = <<>>
    /\ Append(started, <<c, r>>) \in Runs
    /\ started' = Append(started, <<c, r>>)
    /\ rx' = [rx EXCEPT ![c] = @ \o SubSeq(r, 1, k)]
    /\ tosend' = [tosend EXCEPT ![c] = SubSeq(r, k + 1, Len(r))]
    /\ UNCHANGED <<RUNNING, backlog, conn, fin, stalled, flood, server_vars>>

\* The rest of a request arrives.
SendRest(c) ==
    /\ PeerTurn
    /\ Open(c)
    /\ tosend[c] # <<>>
    /\ rx' = [rx EXCEPT ![c] = @ \o tosend[c]]
    /\ tosend' = [tosend EXCEPT ![c] = <<>>]
    /\ UNCHANGED <<RUNNING, backlog, conn, fin, stalled, flood, started, server_vars>>

\* A peer closes its sending side: the first peer at any time, another
\* sender once it has started a request.
Close(c) ==
    /\ PeerTurn
    /\ Open(c)
    /\ tosend[c] = <<>>
    /\ c = 1 \/ \E i \in 1..Len(started) : started[i][1] = c
    /\ fin' = [fin EXCEPT ![c] = TRUE]
    /\ UNCHANGED <<RUNNING, backlog, conn, rx, flood, stalled, tosend, started,
                   server_vars>>

\* A peer whose request is being drained begins to send filler without end:
\* from now on every read of its socket finds bytes waiting.
Flood(c) ==
    /\ pc = "drain"
    /\ streams[idx] = c
    /\ Open(c)
    /\ tosend[c] = <<>>
    /\ rx[c] = <<>>
    /\ flood' = flood \cup {c}
    /\ UNCHANGED <<RUNNING, backlog, conn, rx, fin, stalled, tosend, started, server_vars>>

\* A peer whose request is being drained stops taking data (it has reset the
\* connection, or reads no more and the send buffer is full): from now on a
\* write_all to its socket fails, the first or a later one.  The peer sends
\* nothing more.
Stall(c) ==
    /\ pc = "drain"
    /\ streams[idx] = c
    /\ Open(c)
    /\ tosend[c] = <<>>
    /\ rx[c] = <<>>
    /\ stalled' = stalled \cup {c}
    /\ UNCHANGED <<RUNNING, backlog, conn, rx, fin, flood, tosend, started, server_vars>>

\* handle_signal
Signal ==
    /\ SignalTurn
    /\ RUNNING
    /\ RUNNING' = FALSE
    /\ UNCHANGED <<backlog, conn, rx, fin, stalled, flood, tosend, started, server_vars>>


(***************************************************************************)
(* The server.                                                             *)
(***************************************************************************)
\* main never seeing the Running Flag false.
main_never_sees_stop == FALSE

\* `if unsafe { !RUNNING }` at the top of main's loop.  Every read of RUNNING
\* follows a call into the kernel (accept, read) that the handler may have
\* interrupted, and the handler runs on main's own thread: the read gives
\* the flag's value.
main_sees_stop == ~RUNNING

\* The drain loop never seeing the Running Flag false.
drain_never_sees_stop == FALSE

\* `if unsafe { !RUNNING }` at the top of the drain loop.
drain_sees_stop == ~RUNNING

\* has_space comparing with <=.
has_space_off_by_one(len) == len <= MAX_CONNECTIONS

\* streams.len() < MAX_CONNECTIONS
has_space(len) == len < MAX_CONNECTIONS

\* stream.read(buffer) on a non-blocking socket: the bytes waiting, up to the
\* buffer's size; Ok(0) when the peer has closed and nothing waits; an error
\* (would-block) when nothing waits yet.
waiting(c) ==
    IF rx[c] # <<>> THEN rx[c] ELSE IF c \in flood THEN <<FILLER>> ELSE <<>>

sock_read(c) ==
    IF waiting(c) # <<>>
    THEN [res |-> "ok", n |-> Min(Len(waiting(c)), READ_BUFFER_SIZE)]
    ELSE IF fin[c] THEN [res |-> "ok", n |-> 0]
    ELSE [res |-> "err", n |-> 0]

\* The buffer after a read of n bytes of c's socket: only its first n bytes
\* change.
filled(buffer, c, n) ==
    [i \in 1..READ_BUFFER_SIZE |-> IF i <= n THEN waiting(c)[i] ELSE buffer[i]]

\* The bytes of requests among the n bytes a read takes (filler is not part
\* of any request).
taken(c, n) == SubSeq(rx[c], 1, Min(n, Len(rx[c])))

\* The results of the write_all calls to c's socket.
write_all(c) ==
    IF c \in stalled THEN {oks \in WriteResults : ~oks[1] \/ ~oks[2]}
    ELSE {[i \in 1..2 |-> TRUE]}

RemoveAt(seq, i) == SubSeq(seq, 1, i - 1) \o SubSeq(seq, i + 1, Len(seq))

\* retain_mut goes on to the next stream, or main goes back to the listener.
Resume(live, i) ==
    /\ idx' = i
    /\ pc' = IF i > Len(live) THEN "accept" ELSE "lead"

\* read_and_write returned true: the stream stays.
Retain == streams' = streams /\ Resume(streams, idx + 1)

\* read_and_write returned false: the stream is dropped, its socket closed.
Remove(c) ==
    /\ streams' = RemoveAt(streams, idx)
    /\ Resume(streams', idx)
    /\ conn' = [conn EXCEPT ![c] = "closed"]
    /\ rx' = [rx EXCEPT ![c] = <<>>]
    /\ tosend' = [tosend EXCEPT ![c] = <<>>]

\* The record of a finished cycle: its connection, the bytes it took, how it
\* ended, the read buffer it parsed, the response it sent and what the socket
\* took of it (written), the paths it used, and the Running Flag at its end.
Ended(c, how, out, written) ==
    hist' = Append(hist,
        [conn |-> c, lead |-> cyc.lead, drained |-> cyc.drained, end |-> how,
         buf |-> read_buffer, sent |-> out.sent, written |-> written,
         probes |-> out.probes, reads |-> out.reads, parsed |-> out.parsed,
         partial_path |-> out.partial_path, running |-> RUNNING])

NoOutcome ==
    [sent |-> <<>>, probes |-> <<>>, reads |-> <<>>, parsed |-> FALSE,
     partial_path |-> <<>>, keep |-> FALSE]

\* One iteration of `for stream in listener.incoming()` up to retain_mut:
\* the next socket of the backlog or a would-block error, the RUNNING test,
\* and the push.
Accept ==
    /\ pc = "accept"
    /\ LET arrived == backlog # <<>>
           s == Head(backlog)
       IN  /\ backlog' = IF arrived THEN Tail(backlog) ELSE backlog
           /\ IF main_sees_stop
              THEN /\ pc' = "done"
                   /\ idx' = 1
                   /\ streams' = <<>>
                   /\ conn' = [c \in Peers |->
                                 IF arrived /\ c = s THEN "dropped"
                                 ELSE IF conn[c] = "live" THEN "closed"
                                 ELSE conn[c]]
                   /\ rx' = [c \in Peers |-> IF conn'[c] = conn[c] THEN rx[c] ELSE <<>>]
                   /\ tosend' = [c \in Peers |->
                                   IF conn'[c] = conn[c] THEN tosend[c] ELSE <<>>]
              ELSE \E set_nonblocking_ok \in BOOLEAN :
                     LET keep == arrived /\ has_space(Len(streams))
                                    /\ set_nonblocking_ok
                     IN  /\ streams' = IF keep THEN Append(streams, s) ELSE streams
                         /\ conn' = IF ~arrived THEN conn
                                    ELSE [conn EXCEPT ![s] =
                                            IF keep THEN "live" ELSE "dropped"]
                         /\ rx' = IF arrived /\ ~keep
                                  THEN [rx EXCEPT ![s] = <<>>] ELSE rx
                         /\ tosend' = IF arrived /\ ~keep
                                      THEN [tosend EXCEPT ![s] = <<>>] ELSE tosend
                         /\ Resume(streams', 1)
    /\ UNCHANGED <<RUNNING, read_buffer, trash_buffer, fin, stalled, flood, started, cyc, hist>>

\* leading_read_arm keeping a stream whose peer has closed.
leading_read_arm_keeps_closed(r) ==
    IF r.res = "err" \/ r.n = 0 THEN "return true" ELSE "go on"

\* leading_read_arm dropping a stream that has nothing to read yet.
leading_read_arm_drops_idle(r) ==
    IF r.res = "err" \/ r.n = 0 THEN "return false" ELSE "go on"

\* match stream.read(read_buffer):
\*   Err(_) => return true, Ok(0) => return false, _ => ()
leading_read_arm(r) ==
    IF r.res = "err" THEN "return true"
    ELSE IF r.n = 0 THEN "return false"
    ELSE "go on"

\* drain_read_arm going on to parse and respond when the peer has closed.
drain_read_arm_eof_breaks(r) ==
    IF r.res = "err" \/ r.n = 0 THEN "break" ELSE "loop"

\* match stream.read(trash_buffer):
\*   Ok(0) => return false, Ok(_) => (), Err(_) => break
drain_read_arm(r) ==
    IF r.res = "err" THEN "break"
    ELSE IF r.n = 0 THEN "return false"
    ELSE "loop"

\* The leading read of read_and_write for streams[idx].
LeadingRead ==
    /\ pc = "lead"
    /\ LET c == streams[idx]
           r == sock_read(c)
           arm == leading_read_arm(r)
       IN  IF arm = "return true"
           THEN /\ Retain
                /\ UNCHANGED <<read_buffer, conn, rx, tosend, cyc>>
           ELSE IF arm = "return false"
           THEN /\ Remove(c)
                /\ UNCHANGED <<read_buffer, cyc>>
           ELSE /\ read_buffer' = filled(read_buffer, c, r.n)
                /\ rx' = [rx EXCEPT ![c] = SubSeq(@, r.n + 1, Len(@))]
                /\ cyc' = [lead |-> taken(c, r.n), drained |-> <<>>]
                /\ pc' = "check"
                /\ UNCHANGED <<streams, idx, conn, tosend>>
    /\ UNCHANGED <<RUNNING, trash_buffer, backlog, fin, stalled, flood, started, hist>>

\* The RUNNING test at the top of the drain loop.
DrainCheck ==
    /\ pc = "check"
    /\ IF drain_sees_stop
       THEN /\ Remove(streams[idx])
            /\ Ended(streams[idx], "shutdown", NoOutcome, <<>>)
            /\ cyc' = NoCycle
       ELSE /\ pc' = "drain"
            /\ UNCHANGED <<streams, idx, conn, rx, tosend, cyc, hist>>
    /\ UNCHANGED <<RUNNING, read_buffer, trash_buffer, backlog, fin, stalled, flood, started>>

\* The drain read; when it fails, the rest of read_and_write: parse the read
\* buffer, resolve the path and send the response.
DrainRead ==
    /\ pc = "drain"
    /\ LET c == streams[idx]
           r == sock_read(c)
           arm == drain_read_arm(r)
           out == parse_and_respond(read_buffer)
       IN  IF arm = "break"
           THEN /\ \E oks \in write_all(c) :
                    Ended(c, "responded", out, write_each(out.sent, oks))
                /\ cyc' = NoCycle
                /\ IF out.keep
                   THEN Retain /\ UNCHANGED <<conn, rx, tosend>>
                   ELSE Remove(c)
                /\ UNCHANGED trash_buffer
           ELSE IF arm = "return false"
           THEN /\ Remove(c)
                /\ Ended(c, "eof", NoOutcome, <<>>)
                /\ cyc' = NoCycle
                /\ UNCHANGED trash_buffer
           ELSE /\ trash_buffer' = filled(trash_buffer, c, r.n)
                /\ rx' = [rx EXCEPT ![c] = SubSeq(@, r.n + 1, Len(@))]
                /\ cyc' = [cyc EXCEPT !.drained = @ \o taken(c, r.n)]
                /\ pc' = "check"
                /\ UNCHANGED <<streams, idx, conn, tosend, hist>>
    /\ UNCHANGED <<RUNNING, read_buffer, backlog, fin, stalled, flood, started>>

Next ==
    \/ \E c \in Peers : Connect(c)
    \/ \E c \in Senders :
         \E r \in Requests :
            \E k \in Cuts(r) : Send(c, r, k)
    \/ \E c \in Senders : SendRest(c)
    \/ \E c \in Senders : Close(c)
    \/ \E c \in Senders : Flood(c)
    \/ \E c \in Senders : Stall(c)
    \/ Signal
    \/ Accept
    \/ LeadingRead
    \/ DrainCheck
    \/ DrainRead

Spec == Init /\ [][Next]_vars

\* main runs on: a step of the server that can be taken is taken.  Nothing
\* is assumed of the peers or of the interrupt.  The last conjunct is
\* WF_vars(DrainRead) written out: DrainRead can be taken exactly when pc is
\* "drain", and every step of it leaves "drain".
FairSpec ==
    /\ Spec
    /\ WF_vars(Accept)
    /\ WF_vars(LeadingRead)
    /\ WF_vars(DrainCheck)
    /\ []<>(pc # "drain")

TypeOK ==
    /\ RUNNING \in BOOLEAN
    /\ pc \in {"accept", "lead", "check", "drain", "done"}
    /\ Len(read_buffer) = READ_BUFFER_SIZE
    /\ Len(trash_buffer) = READ_BUFFER_SIZE
    /\ \A i \in 1..Len(streams) : conn[streams[i]] = "live"
    /\ pc \in {"lead", "check", "drain"} => idx \in 1..Len(streams)


(***************************************************************************)
(* Vocabulary of the properties.                                           *)
(***************************************************************************)
Cycles == 1..Len(hist)

\* The cycles that went on to parse and respond.
Responded == {i \in Cycles : hist[i].end = "responded"}

\* All the bytes a cycle took from its socket: leading read, then drain.
Received(h) == h.lead \o h.drained

Heads(sent) == {i \in 1..Len(sent) : "head" \in DOMAIN sent[i]}

IsStatus(sent, code) ==
    /\ Len(sent) = 1
    /\ DOMAIN sent[1] = {"head", "reason"}
    /\ sent[1].head = code

\* The path of a request as sent: the bytes from the slash at offset 4 up to
\* the first space, ? or # after it, or to the end of the bytes.
RequestPath(bytes) ==
    LET ends == {i \in 6..Len(bytes) : bytes[i] \in {" ", "?", "#"}}
        stop == IF ends = {} THEN Len(bytes) + 1
                ELSE CHOOSE i \in ends : \A j \in ends : i <= j
    IN  SubSeq(bytes, 5, stop - 1)

HasDotDot(path) ==
    \E i \in 1..Len(path) - 1 : path[i] = "." /\ path[i + 1] = "."

\* The read buffer of a server that has read nothing before these bytes.
FreshRead(bytes) ==
    [i \in 1..READ_BUFFER_SIZE |-> IF i <= Len(bytes) THEN bytes[i] ELSE "0"]

InStreams(c) == \E i \in 1..Len(streams) : streams[i] = c

RespondedTo(c) == {i \in Responded : hist[i].conn = c}

(***************************************************************************)
(* C1.  As stated: every request that begins with GET / and whose path     *)
(* (from offset 4 to the first space, ? or #) has two dots in a row is     *)
(* answered 400.  The request is all the bytes the cycle received.         *)
(***************************************************************************)
C1_DotDotRequestGets400 ==
    \A i \in Responded :
        LET h == hist[i]
        IN  (starts_with(Received(h), GET_SLASH) /\ HasDotDot(RequestPath(Received(h))))
                => IsStatus(h.sent, 400)

\* C1, amended: when the bytes taken by the leading read begin with GET / and
\* hold two dots in a row in the path, before any terminator, the response
\* is 400, whatever the rest of the request and whatever was handled before.
C1_DotDotInLeadingReadGets400 ==
    [](\A i \in Responded :
        LET h == hist[i]
        IN  (starts_with(h.lead, GET_SLASH) /\ HasDotDot(RequestPath(h.lead)))
                => IsStatus(h.sent, 400))

\* A request with two dots in the leading read was answered 400 by a server
\* that had handled another cycle before it.
C1_Witness ==
    \E i \in Responded :
        /\ i > 1
        /\ starts_with(hist[i].lead, GET_SLASH)
        /\ HasDotDot(RequestPath(hist[i].lead))
        /\ IsStatus(hist[i].sent, 400)

(***************************************************************************)
(* C2.  Every request whose received bytes do not begin with GET /         *)
(* (requests shorter than five bytes included) is answered 400, after any  *)
(* earlier requests.                                                       *)
(***************************************************************************)
C2_NotGetGets400 ==
    \A i \in Responded :
        ~starts_with(Received(hist[i]), GET_SLASH) => IsStatus(hist[i].sent, 400)

(***************************************************************************)
(* C3.  No state survives across connections: the response to a request    *)
(* depends only on the bytes its connection delivered in that cycle and on *)
(* the file system, so it is the response the same bytes get from a server *)
(* that has handled no request before.                                     *)
(***************************************************************************)
C3_ResponseIndependentOfHistory ==
    \A i \in Responded :
        hist[i].sent = parse_and_respond(FreshRead(hist[i].lead)).sent

C5_ExactlyOneResponse ==
    \A i \in Cycles : Cardinality(Heads(hist[i].sent)) = 1

\* C5, amended: such a cycle writes at most one response: exactly one when
\* its drain ends with a read error, and none when a drain read returns 0
\* bytes or the Running Flag is false at a drain check.
C5_OneResponseOrNone ==
    [](\A i \in Cycles :
        /\ hist[i].lead # <<>>
        /\ hist[i].end = "responded" => Cardinality(Heads(hist[i].sent)) = 1
        /\ hist[i].end \in {"eof", "shutdown"} => hist[i].sent = <<>>
        /\ hist[i].end \in {"responded", "eof", "shutdown"})

\* One cycle responded to a request that was not a GET, and a later one ended
\* without a response because the peer had closed.
C5_Witness ==
    \E i, j \in Cycles :
        /\ hist[i].end = "responded"
        /\ ~starts_with(hist[i].buf, GET_SLASH)
        /\ hist[j].end = "eof"
        /\ hist[j].sent = <<>>


(***************************************************************************)
(* The path resolver's properties speak of the parsed request path: the    *)
(* path the parser handed on (hist[i].partial_path), under PUBLIC_DIR.     *)
(***************************************************************************)
Parsed == {i \in Responded : hist[i].parsed}

TypeOfExtension ==
    { <<<<"h", "t", "m", "l">>, "text/html">>,
      <<<<"c", "s", "s">>, "text/css">>,
      <<<<"j", "s">>, "application/javascript">>,
      <<<<"s", "v", "g">>, "image/svg+xml">>,
      <<<<"w", "o", "f", "f", "2">>, "font/woff2">> }

\* The extension of a file name: the bytes after its last dot, when it has a
\* dot that is not its first byte.
NameExtension(name) ==
    LET dot == LastDot(name, Len(name))
    IN  IF dot <= 1 THEN [some |-> FALSE, ext |-> <<>>]
        ELSE [some |-> TRUE, ext |-> SubSeq(name, dot + 1, Len(name))]

Listed(e) == e.some /\ \E t \in TypeOfExtension : t[1] = e.ext

TypeListed(e) == (CHOOSE t \in TypeOfExtension : t[1] = e.ext)[2]

\* The path names this file of the file system.
ResolvesToFile(partial_path, f) ==
    /\ Components(PUBLIC_DIR \o partial_path) = f.at
    /\ ~NeedsDir(partial_path)

ResolvesToDir(partial_path) == Components(PUBLIC_DIR \o partial_path) \in FsDirs

EndsWithSlash(path) == path # <<>> /\ path[Len(path)] = "/"

ContentResponse(type, content) ==
    << [head |-> 200, reason |-> "OK", content_length |-> Len(content),
        content_type |-> type],
       [body |-> content] >>

\* The components of the path whose extension decides the content type:
\* index.html under a directory, the path itself otherwise.
FinalComponents(partial_path) ==
    IF ResolvesToDir(partial_path)
    THEN Components(PUBLIC_DIR \o partial_path) \o <<INDEX_HTML>>
    ELSE Components(PUBLIC_DIR \o partial_path)

FinalExtension(partial_path) ==
    LET comps == FinalComponents(partial_path)
    IN  NameExtension(comps[Len(comps)])

(***************************************************************************)
(* C6.  When the request path resolves to an existing readable regular     *)
(* file with a supported extension, the response is 200 OK, its            *)
(* Content-Length the file's byte length, its body the file's content, the *)
(* head written before the body.                                           *)
(***************************************************************************)
C6_FileServedWhole ==
    [](\A i \in Parsed : \A f \in FsFiles :
        LET e == NameExtension(f.at[Len(f.at)])
        IN  (f.readable /\ Listed(e) /\ ResolvesToFile(hist[i].partial_path, f))
                => hist[i].sent = ContentResponse(TypeListed(e), f.content))

\* A request for a readable .js file was answered.
C6_Witness ==
    \E i \in Parsed : \E f \in FsFiles :
        /\ f.readable
        /\ Listed(NameExtension(f.at[Len(f.at)]))
        /\ ResolvesToFile(hist[i].partial_path, f)
        /\ Len(hist[i].sent) = 2

(***************************************************************************)
(* C7.  For a request that is not redirected, the content type is decided  *)
(* by the extension of the final resolved path, by exact match: a listed   *)
(* extension gives its type; any other extension, or none, gives 404 even  *)
(* when the file exists and is readable, and the file is not read or sent. *)
(***************************************************************************)
C7_ExtensionAllowList ==
    [](\A i \in Parsed :
        LET h == hist[i]
            e == FinalExtension(h.partial_path)
        IN  (ResolvesToDir(h.partial_path) => EndsWithSlash(h.partial_path)) =>
                IF Listed(e)
                THEN \/ IsStatus(h.sent, 404)
                     \/ /\ Len(h.sent) = 2
                        /\ h.sent[1].head = 200
                        /\ h.sent[1].content_type = TypeListed(e)
                ELSE IsStatus(h.sent, 404) /\ h.reads = <<>>)

\* A readable file with an extension outside the list was asked for and the
\* answer was 404.
C7_Witness ==
    \E i \in Parsed : \E f \in FsFiles :
        /\ f.readable
        /\ ~Listed(NameExtension(f.at[Len(f.at)]))
        /\ ResolvesToFile(hist[i].partial_path, f)
        /\ IsStatus(hist[i].sent, 404)

(***************************************************************************)
(* C8.  When the request path resolves to a directory and does not end     *)
(* with /, the response is 308 Permanent Redirect with Location the        *)
(* request path and one / appended, and no file is read.                   *)
(***************************************************************************)
C8_DirectoryRedirect ==
    [](\A i \in Parsed :
        LET h == hist[i]
        IN  (ResolvesToDir(h.partial_path) /\ ~EndsWithSlash(h.partial_path))
                => /\ h.sent = << [head |-> 308, reason |-> "Permanent Redirect",
                                   location |-> h.partial_path \o <<"/">>] >>
                   /\ h.reads = <<>>)

\* A directory was asked for without the trailing slash.
C8_Witness ==
    \E i \in Parsed :
        /\ ResolvesToDir(hist[i].partial_path)
        /\ ~EndsWithSlash(hist[i].partial_path)
        /\ Len(hist[i].partial_path) > 1
        /\ Len(hist[i].sent) = 1

(***************************************************************************)
(* C9.  When the request path resolves to a directory and ends with /, the *)
(* server serves the directory's index.html as 200 text/html when it       *)
(* exists and is readable, answers 404 when it is absent or unreadable,    *)
(* and never redirects.                                                    *)
(***************************************************************************)
C9_DirectoryIndex ==
    [](\A i \in Parsed :
        LET h == hist[i]
            at == Components(PUBLIC_DIR \o h.partial_path) \o <<INDEX_HTML>>
            index == {f \in FsFiles : f.at = at /\ f.readable}
        IN  (ResolvesToDir(h.partial_path) /\ EndsWithSlash(h.partial_path))
                => IF index = {}
                   THEN IsStatus(h.sent, 404)
                   ELSE \E f \in index :
                            h.sent = ContentResponse("text/html", f.content))

\* The index of a directory was served.
C9_Witness ==
    \E i \in Parsed :
        /\ ResolvesToDir(hist[i].partial_path)
        /\ EndsWithSlash(hist[i].partial_path)
        /\ Len(hist[i].partial_path) > 1
        /\ Len(hist[i].sent) = 2

(***************************************************************************)
(* C10.  The live set never holds more than MAX_CONNECTIONS streams: a     *)
(* socket is added only while the count is below MAX_CONNECTIONS, and a    *)
(* socket that was dropped on arrival is never in the live set.            *)
(***************************************************************************)
C10_LiveSetBounded ==
    /\ [](/\ Len(streams) <= MAX_CONNECTIONS
          /\ \A c \in Peers : conn[c] = "dropped" => ~InStreams(c))
    /\ [][\A c \in Peers :
            /\ (~InStreams(c) /\ InStreams(c)') =>
                    (Len(streams) < MAX_CONNECTIONS /\ conn[c] = "backlog")
            /\ conn[c] = "dropped" => conn'[c] = "dropped"]_vars

\* The live set is full and a socket that arrived after it filled up was
\* dropped.
C10_Witness ==
    /\ RUNNING
    /\ Len(streams) = MAX_CONNECTIONS
    /\ \A c \in 1..MAX_CONNECTIONS : InStreams(c)
    /\ \E c \in Peers : c > MAX_CONNECTIONS /\ conn[c] = "dropped"

(***************************************************************************)
(* C11.  A connection whose leading read returns 0 bytes (the peer         *)
(* connected, sent nothing and closed) leaves the live set in that poll    *)
(* pass, its cycle writes nothing, and nothing is written to it later: a   *)
(* peer that never sent has no cycle that sent or wrote anything, and a    *)
(* closed connection stays closed and gets no further response.            *)
(***************************************************************************)
NeverSent(c) == \A i \in 1..Len(started) : started[i][1] # c

LeadingReadReturns0(c) ==
    pc = "lead" /\ streams[idx] = c /\ sock_read(c) = [res |-> "ok", n |-> 0]

C11_LeadingEofRemoved ==
    /\ [](\A c \in Peers : \A i \in Cycles :
            (NeverSent(c) /\ hist[i].conn = c)
                => (hist[i].sent = <<>> /\ hist[i].written = <<>>))
    /\ [][\A c \in Peers :
            /\ (LeadingReadReturns0(c) /\ server_vars' # server_vars)
                    => (~InStreams(c)' /\ conn'[c] = "closed" /\ hist' = hist)
            /\ conn[c] = "closed"
                    => (conn'[c] = "closed" /\ ~InStreams(c)'
                            /\ RespondedTo(c)' = RespondedTo(c))]_vars

\* The first peer connected, sent nothing and closed; its stream was taken
\* into the live set and removed by the leading read while the server runs.
C11_Witness ==
    /\ RUNNING
    /\ pc # "done"
    /\ NeverSent(1)
    /\ fin[1]
    /\ conn[1] = "closed"
    /\ hist = <<>>

(***************************************************************************)
(* C12.  Shutdown terminates the server: once the Running Flag is false,   *)
(* main returns, whatever the peers do, a peer that floods the drain loop  *)
(* included; an iteration of main's loop that begins with the flag false   *)
(* returns at once, adding no connection and running no cycle; and main    *)
(* returns for no other reason.                                            *)
(***************************************************************************)
C12_ShutdownTerminates ==
    /\ ~RUNNING ~> pc = "done"
    /\ [](pc = "done" => ~RUNNING)
    /\ [][(~RUNNING /\ pc = "accept" /\ server_vars' # server_vars)
            => /\ pc' = "done"
               /\ hist' = hist
               /\ cyc' = cyc
               /\ \A c \in Peers : ~InStreams(c)']_vars

\* main has returned while a peer was flooding the drain loop: the flooded
\* cycle was cut short by the drain's test of the flag.
C12_Witness ==
    /\ pc = "done"
    /\ \E i \in Cycles : hist[i].conn \in flood /\ hist[i].end = "shutdown"
    /\ \E c \in Peers : conn[c] = "dropped"

(***************************************************************************)
(* C13.  A connection whose leading read fails (would-block) stays in the  *)
(* live set for a later pass: that pass writes no response to it, drains   *)
(* and parses nothing for it and takes no byte of it; so a peer that never *)
(* sends and never closes keeps its slot as long as the Running Flag is    *)
(* true.                                                                   *)
(***************************************************************************)
LeadingReadFails(c) ==
    pc = "lead" /\ streams[idx] = c /\ sock_read(c).res = "err"

C13_IdleKept ==
    [][\A c \in Peers :
          /\ (LeadingReadFails(c) /\ server_vars' # server_vars)
                => /\ InStreams(c)'
                   /\ streams' = streams
                   /\ idx' = idx + 1
                   /\ pc' \in {"lead", "accept"}
                   /\ hist' = hist
                   /\ cyc' = cyc
                   /\ read_buffer' = read_buffer
                   /\ trash_buffer' = trash_buffer
                   /\ rx' = rx
          /\ (InStreams(c) /\ NeverSent(c) /\ ~fin[c] /\ RUNNING)
                => InStreams(c)']_vars

\* A peer that has sent nothing and has not closed was polled in this pass
\* and is still in the live set, after the server has answered another peer.
C13_Witness ==
    /\ RUNNING
    /\ pc \in {"lead", "accept"}
    /\ Responded # {}
    /\ \E i \in 1..Len(streams) :
            i < idx /\ NeverSent(streams[i]) /\ ~fin[streams[i]]

(***************************************************************************)
(* C14.  When a write of a response fails, nothing more of that response   *)
(* is written (what the socket took is the part of the response before the *)
(* failed write) and the connection leaves the live set in that same poll  *)
(* pass.                                                                   *)
(***************************************************************************)
WriteFailed(h) == Len(h.written) < Len(h.sent)

\* The step ends a cycle of c in which a write failed.
EndsWithFailedWrite(c) ==
    /\ Len(hist') = Len(hist) + 1
    /\ hist'[Len(hist')].conn = c
    /\ WriteFailed(hist'[Len(hist')])

C14_WriteFailureTerminal ==
    /\ [](\A i \in Cycles :
            hist[i].written = SubSeq(hist[i].sent, 1, Len(hist[i].written)))
    /\ [][\A c \in Peers : EndsWithFailedWrite(c) => ~InStreams(c)']_vars

(***************************************************************************)
(* C15.  The drain tests the Running Flag before every drain read.  When   *)
(* the flag is false at the test, the cycle ends there: the connection     *)
(* leaves the live set and nothing is sent.  When a drain read returns 0   *)
(* bytes, likewise.  When it returns bytes, they go to the trash buffer    *)
(* and the flag is tested again.  A cycle parses and responds only after a *)
(* drain read that returned an error.                                      *)
(***************************************************************************)
ServerStep == server_vars' # server_vars

\* The step ends a cycle of c with the record h.
CycleEnds(c, h) ==
    /\ hist' = Append(hist, h)
    /\ h.conn = c
    /\ cyc' = NoCycle

Silent(h) == h.sent = <<>> /\ h.written = <<>> /\ h.probes = <<>> /\ h.reads = <<>>

C15_DrainRechecksFlag ==
    [][/\ (pc' = "drain" /\ pc # "drain") => (pc = "check" /\ RUNNING)
       /\ (pc = "drain" /\ pc' # "drain") => pc' \in {"check", "lead", "accept"}
       /\ \A c \in Peers :
            /\ (pc = "check" /\ streams[idx] = c /\ ~RUNNING /\ ServerStep)
                    => /\ ~InStreams(c)'
                       /\ CycleEnds(c, hist'[Len(hist')])
                       /\ hist'[Len(hist')].end = "shutdown"
                       /\ Silent(hist'[Len(hist')])
            /\ (pc = "drain" /\ streams[idx] = c /\ ServerStep
                    /\ sock_read(c) = [res |-> "ok", n |-> 0])
                    => /\ ~InStreams(c)'
                       /\ CycleEnds(c, hist'[Len(hist')])
                       /\ hist'[Len(hist')].end = "eof"
                       /\ Silent(hist'[Len(hist')])
            /\ (pc = "drain" /\ streams[idx] = c /\ ServerStep
                    /\ sock_read(c).res = "ok" /\ sock_read(c).n > 0)
                    => /\ pc' = "check"
                       /\ hist' = hist
                       /\ read_buffer' = read_buffer
                       /\ InStreams(c)'
            /\ (Len(hist') > Len(hist) /\ ~Silent(hist'[Len(hist')])
                    /\ hist'[Len(hist')].conn = c)
                    => (pc = "drain" /\ streams[idx] = c
                            /\ sock_read(c).res = "err")]_vars

\* One cycle drained bytes and then responded; another was cut short by the
\* flag at a drain test.
C15_Witness ==
    /\ \E i \in Responded : hist[i].drained # <<>> /\ hist[i].sent # <<>>
    /\ \E j \in Cycles : hist[j].end = "shutdown" /\ hist[j].lead # <<>>

(***************************************************************************)
(* C16.  For every buffer that begins with GET / and has no two dots in a  *)
(* row in the scanned range, the parsed path is the bytes of the buffer    *)
(* from offset 4 up to the first space, ? or # after offset 4, and, when   *)
(* the buffer holds none, all the bytes from offset 4 through the last     *)
(* byte of the buffer.                                                     *)
(***************************************************************************)
C16_PathIsRequestPath ==
    \A i \in Parsed : hist[i].partial_path = RequestPath(hist[i].buf)

(***************************************************************************)
(* C17.  Every cycle finishes, and so every connection of the live set is  *)
(* polled again and again while the Running Flag is true: whatever a peer  *)
(* sends, main leaves that peer's cycle, and each live connection comes to *)
(* its next leading read (or leaves the live set, or the flag goes false). *)
(***************************************************************************)
InCycle == pc \in {"check", "drain"}

Polled(c) == pc = "lead" /\ streams[idx] = c

C17_EveryCycleFinishes ==
    /\ [](InCycle => <>(~InCycle))
    /\ \A c \in Peers :
            [](InStreams(c) => <>(Polled(c) \/ ~InStreams(c) \/ ~RUNNING))

(***************************************************************************)
(* C18.  The bytes of a request beyond those the leading read took are     *)
(* only discarded: a drain read leaves the read buffer as it was, and no   *)
(* leading read begins inside a request, so no byte of a request already   *)
(* answered is parsed as the start of a new one, also when the request     *)
(* arrives in several segments.                                            *)
(***************************************************************************)
\* The number of bytes of c's requests among the first k requests started.
RECURSIVE StreamEnd(_, _)
StreamEnd(c, k) ==
    IF k = 0 THEN 0
    ELSE StreamEnd(c, k - 1)
            + (IF started[k][1] = c THEN Len(started[k][2]) ELSE 0)

\* The offsets in c's byte stream at which a request begins or ends.
Boundaries(c) == { StreamEnd(c, k) : k \in 0..Len(started) }

\* The number of bytes the first j cycles took from c's socket.
RECURSIVE BytesTaken(_, _)
BytesTaken(c, j) ==
    IF j = 0 THEN 0
    ELSE BytesTaken(c, j - 1)
            + (IF hist[j].conn = c THEN Len(Received(hist[j])) ELSE 0)

C18_DrainDiscardsRest ==
    /\ [](\A j \in Cycles :
            BytesTaken(hist[j].conn, j - 1) \in Boundaries(hist[j].conn))
    /\ [][(pc = "drain" /\ ServerStep) => read_buffer' = read_buffer]_vars

(***************************************************************************)
(* C19.  Every path the server tests with is_dir or reads is the Public    *)
(* Root followed by a path that starts with / and has no two dots in a     *)
(* row, optionally followed by index.html; so none of its components is    *)
(* the parent directory.  This holds whatever the buffer holds: bytes left *)
(* by earlier requests, or no terminator.                                  *)
(***************************************************************************)
UnderPublicRoot(p) ==
    /\ starts_with(p, PUBLIC_DIR)
    /\ \E n \in 1..(Len(p) - Len(PUBLIC_DIR)) :
            LET q == SubSeq(p, Len(PUBLIC_DIR) + 1, Len(PUBLIC_DIR) + n)
                rest == SubSeq(p, Len(PUBLIC_DIR) + n + 1, Len(p))
            IN  /\ q[1] = "/"
                /\ ~HasDotDot(q)
                /\ rest \in {<<>>, INDEX_HTML}
    /\ \A k \in 1..Len(RawComponents(p)) : RawComponents(p)[k] # <<".", ".">>

PathsUsed(h) ==
    {h.probes[k] : k \in 1..Len(h.probes)} \cup {h.reads[k] : k \in 1..Len(h.reads)}

C19_PathsUnderPublicRoot ==
    [](\A i \in Cycles : \A p \in PathsUsed(hist[i]) : UnderPublicRoot(p))

\* The server read an index.html for a path it parsed from bytes left in the
\* buffer by an earlier request.
C19_Witness ==
    \E i \in Parsed :
        /\ i > 1
        /\ Len(hist[i].lead) < Len(GET_SLASH)
        /\ hist[i].probes # <<>>
        /\ \E k \in 1..Len(hist[i].reads) :
                hist[i].reads[k] = hist[i].probes[1] \o INDEX_HTML

(***************************************************************************)
(* C20.  After the handler has set the Running Flag to false the server    *)
(* writes at most one more response: that of the cycle that had passed its *)
(* last drain test, and no cycle that ends later responds.  Every other    *)
(* connection found with bytes waiting in the rest of the pass has them    *)
(* taken by its leading read and is removed without a response.            *)
(***************************************************************************)
\* The cycles that ended after the flag had become false.
AfterStop == {i \in Cycles : ~hist[i].running}

C20_OneResponseAfterStop ==
    /\ [](/\ Cardinality(AfterStop \cap Responded) <= 1
          /\ \A i, j \in AfterStop : (i < j) => (j \notin Responded /\ Silent(hist[j])))
    /\ [][\A c \in Peers :
            /\ (~RUNNING /\ Len(hist') > Len(hist)
                    /\ hist'[Len(hist')].end = "responded")
                    => pc = "drain"
            /\ (~RUNNING /\ pc = "lead" /\ streams[idx] = c /\ ServerStep
                    /\ sock_read(c).res = "ok" /\ sock_read(c).n > 0)
                    => (pc' = "check" /\ Len(rx'[c]) < Len(rx[c]) /\ hist' = hist)
            /\ (~RUNNING /\ pc = "check" /\ streams[idx] = c /\ ServerStep)
                    => (~InStreams(c)' /\ Silent(hist'[Len(hist')])
                            /\ hist'[Len(hist')].conn = c)]_vars

\* The interrupt came after a cycle's last drain test: that cycle responded,
\* and another connection with a request waiting was removed in the same
\* pass without a response.
C20_Witness ==
    \E i, j \in AfterStop :
        /\ i < j
        /\ i \in Responded
        /\ hist[i].written # <<>>
        /\ hist[j].end = "shutdown"
        /\ hist[j].conn # hist[i].conn
        /\ hist[j].lead # <<>>

====
